---- MODULE Spec2Model ----
(***************************************************************************)
(* ara::core value-or-error container (Result<T,E>, Result<void,E>), its   *)
(* raw-union draft, ErrorCode / ErrorDomain and the Exception bridge.      *)
(*                                                                         *)
(* One behaviour follows one instantiation of the class template, chosen   *)
(* in Init and recorded in impl:                                           *)
(*   "variant"  Result<T,E> of include/ara/core/result.h (std::variant)    *)
(*   "void"     Result<void,E> of include/ara/core/result.h                *)
(*   "draft"    Result<T,E> of the raw-union draft (unnamed/part_006)      *)
(*   "errc"     a stand-alone ErrorCode object and the Exception class     *)
(* T is the ValueTest of tests/result_test.cpp, E is ara::core::ErrorCode. *)
(* Every instance carries, next to the discriminant, the lifetime of each  *)
(* side (vLive, eLive): the C++ object model's "constructed" state.        *)
(***************************************************************************)
EXTENDS Integers, Sequences, FiniteSets, TLC

\* ---------------------------------------------------------------- bounds
MaxInt == 1
MaxData == 1
MaxCode == 140
MaxShift == 7

\* -------------------------------------------------------------- payloads
Insts == {"a", "b"}
Impls == {"variant", "void", "draft", "errc"}
Strings == {"Init", "Test"}

\* a std::string that has been moved from (libstdc++/libc++ leave it empty)
MovedString == ""

Values == [intVal : 0..MaxInt, stringVal : Strings \cup {MovedString}]

\* storage that holds no constructed object of the type
NoVal == [intVal |-> -1, stringVal |-> "-"]
NoErr == [value |-> -1, domain |-> "-", data |-> 0]

\* argument lists accepted by the three ValueTest constructors
ValueArgs ==
    [kind : {"int"}, i : 0..MaxInt, s : {"Init"}]
        \cup [kind : {"str"}, i : {0}, s : Strings]
        \cup [kind : {"int_str"}, i : 0..MaxInt, s : Strings]

ValueTest(args) ==
    CASE args.kind = "int" -> [intVal |-> args.i, stringVal |-> "Init"]
      [] args.kind = "str" -> [intVal |-> 0, stringVal |-> args.s]
      [] args.kind = "int_str" -> [intVal |-> args.i, stringVal |-> args.s]

\* the states a moved-from ValueTest may be left in: the int member is
\* copied, the string member is valid but unspecified (unchanged or empty)
MovedFromValue(v) == {v, [v EXCEPT !.stringVal = MovedString]}

\* CoreErrc enumerators
kInvalidArgument == 22
kInvalidMetaModelShortname == 137
kInvalidMetaModelPath == 138
CoreErrc == {kInvalidArgument, kInvalidMetaModelShortname, kInvalidMetaModelPath}

\* CoreErrorDomain::coreId = 0x8000000000000014 as four 16-bit words
coreId == <<32768, 0, 0, 20>>

\* the ids the ErrorDomain tests construct their domains with
id1 == <<0, 0, 0, 1>>
id2 == <<0, 0, 0, 2>>

\* the global constexpr CoreErrorDomain coreErrorDomain
coreErrorDomain == "Core"

\* the ErrorDomain objects of a program, by name: the global one, a second
\* CoreErrorDomain, and ErrorDomainTestImpl objects, two of them sharing
\* an id and one constructed with the id of the core domain
DomainObjects ==
    [Core     |-> [type |-> "CoreErrorDomain", id |-> coreId],
     Core2    |-> [type |-> "CoreErrorDomain", id |-> coreId],
     Test1    |-> [type |-> "ErrorDomainTestImpl", id |-> id1],
     Test1b   |-> [type |-> "ErrorDomainTestImpl", id |-> id1],
     Test2    |-> [type |-> "ErrorDomainTestImpl", id |-> id2],
     TestCore |-> [type |-> "ErrorDomainTestImpl", id |-> coreId]]

\* the domains of the errors held in Results
Domains == {coreErrorDomain}

\* constexpr IdType Id() const noexcept { return id; }
Id(domain) == DomainObjects[domain].id
GetCoreErrorDomain == coreErrorDomain

\* an operator== that compares the addresses of the two domains
DomainEqSameObject(d1, d2) == d1 = d2

\* bool ErrorDomain::operator==(ErrorDomain const& other): id == other.id
DomainEq(d1, d2) == Id(d1) = Id(d2)

\* bool ErrorDomain::operator!=(ErrorDomain const& other): ! (*this == other)
DomainNe(d1, d2) == ~DomainEq(d1, d2)

ErrorCodeRaw(value, domain, data) ==
    [value |-> value, domain |-> domain, data |-> data]

\* a factory that drops the support data
MakeErrorCodeNoData(code, data) == ErrorCodeRaw(code, GetCoreErrorDomain, 0)

MakeErrorCode(code, data) == ErrorCodeRaw(code, GetCoreErrorDomain, data)

\* argument lists accepted by the two ErrorCode constructors
ErrorArgs ==
    [kind : {"enum"}, code : CoreErrc, domain : {"Core"}, data : 0..MaxData]
        \cup [kind : {"raw"}, code : CoreErrc, domain : Domains, data : 0..MaxData]

ErrorCode(args) ==
    IF args.kind = "enum"
    THEN MakeErrorCode(args.code, args.data)
    ELSE ErrorCodeRaw(args.code, args.domain, args.data)

Errors == {ErrorCode(args) : args \in ErrorArgs}

\* char const* CoreErrorDomain::Name(): return "Core"
CoreErrorDomainName == "Core"

\* a Message without the default label of the switch
CoreErrorDomainMessageNoDefault(errorCode) ==
    CASE errorCode = kInvalidArgument -> "an invalid argument was passed to a function"
      [] errorCode = kInvalidMetaModelShortname ->
             "given string is not a valid model element shortname"
      [] errorCode = kInvalidMetaModelPath -> "missing or invalid path to model element"
      [] OTHER -> CoreErrorDomainName

\* char const* CoreErrorDomain::Message(ErrorDomain::CodeType errorCode)
CoreErrorDomainMessage(errorCode) ==
    CASE errorCode = kInvalidArgument -> "an invalid argument was passed to a function"
      [] errorCode = kInvalidMetaModelShortname ->
             "given string is not a valid model element shortname"
      [] errorCode = kInvalidMetaModelPath -> "missing or invalid path to model element"
      [] OTHER -> "Invalid code value"

\* virtual char const* Name() of the domain object
DomainName(domain) ==
    IF DomainObjects[domain].type = "CoreErrorDomain" THEN CoreErrorDomainName ELSE ""

\* virtual char const* Message(CodeType) of the domain object
DomainMessage(domain, errorCode) ==
    IF DomainObjects[domain].type = "CoreErrorDomain"
    THEN CoreErrorDomainMessage(errorCode)
    ELSE ""

\* the 32-bit codes handed to Message: a band around the enumerators, the
\* code of the specification's example and the ends of std::int32_t
CodeTypes == (-MaxCode..MaxCode) \cup {9999, 2147483647, -2147483647}

\* every ErrorCode the raw constructor can build over the domain objects
AnyErrors ==
    {ErrorCodeRaw(v, d, s) : v \in CoreErrc, d \in DOMAIN DomainObjects, s \in 0..MaxData}

\* an operator== that compares the support data as well
ErrorCodeEqWithData(lhs, rhs) ==
    lhs.value = rhs.value /\ DomainEq(lhs.domain, rhs.domain) /\ lhs.data = rhs.data

\* bool operator==(ErrorCode const& lhs, ErrorCode const& rhs)
ErrorCodeEq(lhs, rhs) ==
    lhs.value = rhs.value /\ DomainEq(lhs.domain, rhs.domain)

\* bool operator!=(ErrorCode const& lhs, ErrorCode const& rhs)
ErrorCodeNe(lhs, rhs) == ~ErrorCodeEq(lhs, rhs)

\* Value(), Domain() and SupportData() of an ErrorCode
ErrorCodeValue(c) == c.value
ErrorCodeDomain(c) == c.domain
ErrorCodeSupportData(c) == c.data

\* StringView ErrorCode::Message(): return StringView(domain->Name())
ErrorCodeMessage(c) == DomainName(c.domain)

\* ------------------------------------------------------------------ state
VARIABLES
    impl,   \* which class template this behaviour instantiates
    res,    \* the Result instances: slot -> storage record
    ecode,  \* a stand-alone ErrorCode object (impl = "errc")
    exc,    \* the exception object that was thrown / constructed last
    last    \* the operation executed last, its inputs and what it returned

vars == <<impl, res, ecode, exc, last>>

\* a slot in which no Result object lives
Absent ==
    [alive |-> FALSE, tag |-> "none", vLive |-> FALSE, eLive |-> FALSE,
     value |-> NoVal, error |-> NoErr]

NoExc == [kind |-> "none", ref |-> "none", given |-> NoErr]
NoLocal == [alive |-> FALSE, code |-> NoErr]

\* calls: the arguments with which a callable handed to the operation was
\* invoked, one entry per invocation; steps: what the operation did to the
\* payload storage, in program order
Op(op, tgt, oth, arg, ret, out) ==
    [op |-> op, tgt |-> tgt, oth |-> oth, arg |-> arg, ret |-> ret, out |-> out,
     calls |-> <<>>, steps |-> <<>>]

\* the record of an operation that touched payload storage
WithSteps(o, steps) == [o EXCEPT !.steps = steps]

\* one step on the payload storage of an instance (inst is "this" or
\* "other", as the running member function names them): act is "construct",
\* "destroy", "assign" or "read", side the member it touches; tag, vLive and
\* eLive are the instance's state right before the step
Step(act, inst, side, r) ==
    [act |-> act, inst |-> inst, side |-> side,
     tag |-> r.tag, vLive |-> r.vLive, eLive |-> r.eLive]

\* whether an object lived in the member the step touches
SideLive(s) == IF s.side = "value" THEN s.vLive ELSE s.eLive

Init ==
    /\ impl \in Impls
    /\ res = [i \in Insts |-> Absent]
    /\ ecode = NoLocal
    /\ exc = NoExc
    /\ last = Op("none", "none", "none", "none", "none", "returned")

\* ------------------------------------------------- std::variant storage
\* std::holds_alternative<value_type>(result_)
HoldsValue(r) == r.tag = "value"

\* the variant ends the lifetime of the alternative it holds
DestroyActive(r) ==
    IF r.tag = "value" THEN [r EXCEPT !.vLive = FALSE, !.value = NoVal]
    ELSE IF r.tag = "error" THEN [r EXCEPT !.eLive = FALSE, !.error = NoErr]
    ELSE r

ConstructValue(r, v) ==
    [r EXCEPT !.alive = TRUE, !.tag = "value", !.vLive = TRUE, !.value = v]

ConstructError(r, e) ==
    [r EXCEPT !.alive = TRUE, !.tag = "error", !.eLive = TRUE, !.error = e]

\* result_.emplace<value_type>(v): destroy the held alternative, then
\* construct the new one
VariantEmplaceValue(r, v) == ConstructValue(DestroyActive(r), v)
VariantEmplaceError(r, e) == ConstructError(DestroyActive(r), e)

\* the steps of result_.emplace<side>(...) and of the variant's destructor
VariantEmplaceSteps(inst, r, side) ==
    <<Step("destroy", inst, r.tag, r), Step("construct", inst, side, DestroyActive(r))>>
VariantDestroySteps(inst, r) == <<Step("destroy", inst, r.tag, r)>>

\* result_ = other.result_: same alternative -> assign the payload,
\* different alternative -> destroy and construct
VariantAssign(r, o) ==
    IF r.tag = o.tag
    THEN IF o.tag = "value" THEN [r EXCEPT !.value = o.value]
                            ELSE [r EXCEPT !.error = o.error]
    ELSE IF o.tag = "value" THEN VariantEmplaceValue(r, o.value)
                            ELSE VariantEmplaceError(r, o.error)

\* result_.swap(other.result_): <<new *this, new other>>
VariantSwap(r, o) ==
    IF r.tag = o.tag
    THEN IF r.tag = "value"
         THEN <<[r EXCEPT !.value = o.value], [o EXCEPT !.value = r.value]>>
         ELSE <<[r EXCEPT !.error = o.error], [o EXCEPT !.error = r.error]>>
    ELSE <<VariantAssign(r, o), VariantAssign(o, r)>>

\* the steps of result_.swap(other.result_). Same alternative: the two
\* payloads are swapped in place. Different alternatives:
\*   auto tmp(std::move(rhs)); rhs = std::move(*this); *this = std::move(tmp);
\* each assignment destroys the target's alternative and constructs the
\* new one from the source's held alternative
VariantSwapSteps(r, o) ==
    IF r.tag = o.tag
    THEN <<Step("read", "this", r.tag, r), Step("read", "other", o.tag, o),
           Step("assign", "this", r.tag, r), Step("assign", "other", o.tag, o)>>
    ELSE <<Step("read", "other", o.tag, o),
           Step("destroy", "other", o.tag, o),
           Step("read", "this", r.tag, r),
           Step("construct", "other", r.tag, DestroyActive(o)),
           Step("destroy", "this", r.tag, r),
           Step("construct", "this", o.tag, DestroyActive(r))>>

\* the source of a move keeps its alternative; a moved-from value payload is
\* one of MovedFromValue, an ErrorCode is trivially copyable and unchanged
MovedFrom(o) ==
    IF o.tag = "value"
    THEN {[o EXCEPT !.value = m] : m \in MovedFromValue(o.value)}
    ELSE {o}

BadVariantAccess == [kind |-> "bad_variant_access", ref |-> "none", given |-> NoErr]

\* -------------------------------------------------- Exception / domains
\* Exception::Exception(ErrorCode const& err) : error{err}
\* the member is a reference: ref names the storage err is bound to, given
\* is the code that storage held when the exception was constructed
Exception(ref, err) == [kind |-> "CoreException", ref |-> ref, given |-> err]

\* CoreException::CoreException(err) : Exception{err}
CoreException(ref, err) == Exception(ref, err)

\* a ThrowAsException that returns to its caller
DomainThrowAsExceptionReturns(domain, ref, errorCode) == NoExc

\* CoreErrorDomain::ThrowAsException: throw CoreErrorDomain::Exception(errorCode)
\* the result is the exception in flight (NoExc: returned normally)
DomainThrowAsException(domain, ref, errorCode) ==
    IF domain = "Core" THEN CoreException(ref, errorCode) ELSE NoExc

\* ErrorCode::ThrowAsException: domain->ThrowAsException(*this)
ErrorCodeThrowAsException(ref, code) ==
    DomainThrowAsException(code.domain, ref, code)

\* what the reference member of the exception designates now: the object
\* living in the storage, or nothing when its lifetime has ended
RefTarget(x) ==
    IF x.ref \in Insts
    THEN IF res[x.ref].alive /\ res[x.ref].eLive THEN {res[x.ref].error} ELSE {}
    ELSE IF x.ref = "local" /\ ecode.alive THEN {ecode.code} ELSE {}

\* Exception::Error(): return error;  reading through a dangling reference
\* is undefined, any ErrorCode may come back
ExceptionError(x) == IF RefTarget(x) = {} THEN Errors ELSE RefTarget(x)

\* a constructor that value-initialises the payload instead of copying t
ResultOfValueDefault(t) == ConstructValue(Absent, ValueTest([kind |-> "int", i |-> 0, s |-> "Init"]))

\* ----------------------------------------------- Result<T,E> (result.h)
ResultOfValue(t) == ConstructValue(Absent, t)
\* a constructor that stores kInvalidArgument whatever code e carries
ResultOfErrorFixedCode(e) == ConstructError(Absent, [e EXCEPT !.value = kInvalidArgument])

ResultOfError(e) == ConstructError(Absent, e)

\* Result(Result const& other) : result_{other.result_}
ResultCopy(other) ==
    IF other.tag = "value" THEN ResultOfValue(other.value)
                           ELSE ResultOfError(other.error)

HasValue(r) == HoldsValue(r)

Live(i) == res[i].alive

\* no exception is being handled: after a throw the caller is in its catch
\* block until HandlerExit; there it may overwrite or destroy instances
\* and ask the exception for its code
Normal == exc.kind = "none"

IsV == impl = "variant"

\* Result(value_type const& t)
ConstructFromValue(i, t) ==
    /\ IsV /\ Normal /\ ~Live(i)
    /\ res' = [res EXCEPT ![i] = ResultOfValue(t)]
    /\ last' = Op("Result(value)", i, "none", t, "none", "returned")
    /\ UNCHANGED <<impl, ecode, exc>>

\* Result(error_type const& e)
ConstructFromError(i, e) ==
    /\ IsV /\ Normal /\ ~Live(i)
    /\ res' = [res EXCEPT ![i] = ResultOfError(e)]
    /\ last' = Op("Result(error)", i, "none", e, "none", "returned")
    /\ UNCHANGED <<impl, ecode, exc>>

\* Result(Result const& other)
CopyConstruct(i, j) ==
    /\ IsV /\ Normal /\ ~Live(i) /\ Live(j)
    /\ res' = [res EXCEPT ![i] = ResultCopy(res[j])]
    /\ last' = Op("Result(copy)", i, j, "none", "none", "returned")
    /\ UNCHANGED <<impl, ecode, exc>>

\* Result(Result&& other)
MoveConstruct(i, j) ==
    /\ IsV /\ Normal /\ ~Live(i) /\ Live(j)
    /\ \E m \in MovedFrom(res[j]) :
           res' = [res EXCEPT ![i] = ResultCopy(res[j]), ![j] = m]
    /\ last' = Op("Result(move)", i, j, "none", "none", "returned")
    /\ UNCHANGED <<impl, ecode, exc>>

\* ~Result() = default
Destroy(i) ==
    /\ IsV /\ Live(i)
    /\ res' = [res EXCEPT ![i] = [DestroyActive(res[i]) EXCEPT !.alive = FALSE, !.tag = "none"]]
    /\ last' = WithSteps(Op("~Result", i, "none", "none", "none", "returned"),
                         VariantDestroySteps("this", res[i]))
    /\ UNCHANGED <<impl, ecode, exc>>

\* static Result FromValue(value_type const& t) { return Result(t); }
FromValueLvalue(i, t) ==
    /\ IsV /\ Normal /\ ~Live(i)
    /\ res' = [res EXCEPT ![i] = ResultOfValue(t)]
    /\ last' = Op("FromValue", i, "lvalue", t, "none", "returned")
    /\ UNCHANGED <<impl, ecode, exc>>

\* static Result FromValue(value_type&& t) { return Result(std::move(t)); }
FromValueRvalue(i, t) ==
    /\ IsV /\ Normal /\ ~Live(i)
    /\ res' = [res EXCEPT ![i] = ResultOfValue(t)]
    /\ last' = Op("FromValue", i, "rvalue", t, "none", "returned")
    /\ UNCHANGED <<impl, ecode, exc>>

\* static Result FromValue(Args&&... args) { return Result(value_type(args...)); }
FromValueArgs(i, args) ==
    /\ IsV /\ Normal /\ ~Live(i)
    /\ res' = [res EXCEPT ![i] = ResultOfValue(ValueTest(args))]
    /\ last' = Op("FromValue", i, "args", args, "none", "returned")
    /\ UNCHANGED <<impl, ecode, exc>>

\* static Result FromError(error_type const& e) { return Result(e); }
FromErrorLvalue(i, e) ==
    /\ IsV /\ Normal /\ ~Live(i)
    /\ res' = [res EXCEPT ![i] = ResultOfError(e)]
    /\ last' = Op("FromError", i, "lvalue", e, "none", "returned")
    /\ UNCHANGED <<impl, ecode, exc>>

\* static Result FromError(error_type&& e) { return Result(std::move(e)); }
FromErrorRvalue(i, e) ==
    /\ IsV /\ Normal /\ ~Live(i)
    /\ res' = [res EXCEPT ![i] = ResultOfError(e)]
    /\ last' = Op("FromError", i, "rvalue", e, "none", "returned")
    /\ UNCHANGED <<impl, ecode, exc>>

\* static Result FromError(Args&&... args) { return Result(error_type(args...)); }
FromErrorArgs(i, args) ==
    /\ IsV /\ Normal /\ ~Live(i)
    /\ res' = [res EXCEPT ![i] = ResultOfError(ErrorCode(args))]
    /\ last' = Op("FromError", i, "args", args, "none", "returned")
    /\ UNCHANGED <<impl, ecode, exc>>

\* Result& operator=(Result const& other): result_ = other.result_
CopyAssign(i, j) ==
    /\ IsV /\ Normal /\ Live(i) /\ Live(j)
    /\ res' = [res EXCEPT ![i] = VariantAssign(res[i], res[j])]
    /\ last' = Op("CopyAssign", i, j, <<res[i], res[j]>>, "none", "returned")
    /\ UNCHANGED <<impl, ecode, exc>>

\* Result& operator=(Result&& other): result_ = std::move(other.result_)
MoveAssign(i, j) ==
    /\ IsV /\ Normal /\ Live(i) /\ Live(j) /\ i # j
    /\ \E m \in MovedFrom(res[j]) :
           res' = [res EXCEPT ![i] = VariantAssign(res[i], res[j]), ![j] = m]
    /\ last' = Op("MoveAssign", i, j, <<res[i], res[j]>>, "none", "returned")
    /\ UNCHANGED <<impl, ecode, exc>>

\* an EmplaceValue that only replaces a value already held
ResultEmplaceValueSameSide(r, args) ==
    IF r.tag = "value" THEN VariantEmplaceValue(r, ValueTest(args)) ELSE r

\* void EmplaceValue(Args&&... args)
ResultEmplaceValue(r, args) == VariantEmplaceValue(r, ValueTest(args))

\* void EmplaceError(Args&&... args)
ResultEmplaceError(r, args) == VariantEmplaceError(r, ErrorCode(args))

EmplaceValue(i, args) ==
    /\ IsV /\ Live(i)
    /\ res' = [res EXCEPT ![i] = ResultEmplaceValue(res[i], args)]
    /\ last' = WithSteps(Op("EmplaceValue", i, res[i].tag, args, "none", "returned"),
                         VariantEmplaceSteps("this", res[i], "value"))
    /\ UNCHANGED <<impl, ecode, exc>>

EmplaceError(i, args) ==
    /\ IsV /\ Live(i)
    /\ res' = [res EXCEPT ![i] = ResultEmplaceError(res[i], args)]
    /\ last' = WithSteps(Op("EmplaceError", i, res[i].tag, args, "none", "returned"),
                         VariantEmplaceSteps("this", res[i], "error"))
    /\ UNCHANGED <<impl, ecode, exc>>

\* a Swap that handles only the two same-side cases
ResultSwapSameSide(r, o) == IF r.tag = o.tag THEN VariantSwap(r, o) ELSE <<r, o>>

\* a Swap that copies other into *this and leaves other as it was
ResultSwapCopy(r, o) == <<VariantAssign(r, o), o>>

\* void Swap(Result& other): result_.swap(other.result_)
ResultSwap(r, o) == VariantSwap(r, o)

\* number of Swap calls on the same pair made in a row, counted up to 2
SwapRun(i, j) ==
    IF last.op = "Swap" /\ last.tgt = i /\ last.oth = j THEN 2 ELSE 1

Swap(i, j) ==
    /\ IsV /\ Normal /\ Live(i) /\ Live(j) /\ i # j
    /\ res' = [res EXCEPT ![i] = ResultSwap(res[i], res[j])[1],
                          ![j] = ResultSwap(res[i], res[j])[2]]
    /\ last' = WithSteps(Op("Swap", i, j, <<res[i], res[j]>>, SwapRun(i, j), "returned"),
                         VariantSwapSteps(res[i], res[j]))
    /\ UNCHANGED <<impl, ecode, exc>>

\* void swap(Result& lhs, Result& rhs) { lhs.Swap(rhs); }
FreeSwap(i, j) ==
    /\ IsV /\ Normal /\ Live(i) /\ Live(j) /\ i # j
    /\ res' = [res EXCEPT ![i] = ResultSwap(res[i], res[j])[1],
                          ![j] = ResultSwap(res[i], res[j])[2]]
    /\ last' = WithSteps(Op("Swap", i, j, <<res[i], res[j]>>, SwapRun(i, j), "returned"),
                         VariantSwapSteps(res[i], res[j]))
    /\ UNCHANGED <<impl, ecode, exc>>

\* what a call hands back: a normal return with its value, or an exception
Returned(v) == [out |-> "returned", ret |-> v, exc |-> NoExc, calls |-> <<>>]
Thrown(x) == [out |-> "thrown", ret |-> "none", exc |-> x, calls |-> <<>>]

\* the outcome of a call that invoked its callable once, with argument x
Invoking(outcome, x) == [outcome EXCEPT !.calls = <<x>>]

\* a Value() that hands back the value storage whichever side is held
ResultValueUnchecked(r) == Returned(r.value)

\* value_type const& Value() const&: std::get<value_type>(result_)
ResultValue(r) ==
    IF HoldsValue(r) THEN Returned(r.value) ELSE Thrown(BadVariantAccess)

\* error_type const& Error() const&: std::get<error_type>(result_)
ResultError(r) ==
    IF r.tag = "error" THEN Returned(r.error) ELSE Thrown(BadVariantAccess)

\* an observer that moves the held payload out of the instance it reads
ObserveConsuming(op, i, arg, outcome) ==
    /\ last' = [Op(op, i, res[i].tag, arg, outcome.ret, outcome.out)
                   EXCEPT !.calls = outcome.calls]
    /\ exc' = IF outcome.out = "thrown" THEN outcome.exc ELSE exc
    /\ \E m \in MovedFrom(res[i]) : res' = [res EXCEPT ![i] = m]
    /\ UNCHANGED <<impl, ecode>>

\* an observer call on slot i: res is untouched, the outcome is recorded
Observe(op, i, arg, outcome) ==
    /\ last' = [Op(op, i, res[i].tag, arg, outcome.ret, outcome.out)
                   EXCEPT !.calls = outcome.calls]
    /\ exc' = IF outcome.out = "thrown" THEN outcome.exc ELSE exc
    /\ UNCHANGED <<impl, res, ecode>>

CallHasValue(i) ==
    /\ IsV /\ Normal /\ Live(i)
    /\ Observe("HasValue", i, "none", Returned(HasValue(res[i])))

CallValue(i) ==
    /\ IsV /\ Normal /\ Live(i)
    /\ Observe("Value", i, "none", ResultValue(res[i]))

CallError(i) ==
    /\ IsV /\ Normal /\ Live(i)
    /\ Observe("Error", i, "none", ResultError(res[i]))

\* explicit operator bool() const noexcept
CallOperatorBool(i) ==
    /\ IsV /\ Normal /\ Live(i)
    /\ Observe("operator bool", i, "none", Returned(HasValue(res[i])))

\* value_type const& operator*() const&: std::get<value_type>(result_)
CallOperatorStar(i) ==
    /\ IsV /\ Normal /\ Live(i)
    /\ Observe("operator*", i, "none", ResultValue(res[i]))

\* value_type const* operator->() const: &std::get<value_type>(result_);
\* the return recorded is the object pointed at
CallOperatorArrow(i) ==
    /\ IsV /\ Normal /\ Live(i)
    /\ Observe("operator->", i, "none", ResultValue(res[i]))

\* value_type const& ValueOrThrow() const&
\*   if (! HasValue()) std::get<error_type>(result_).ThrowAsException();
\*   return std::get<value_type>(result_);
ResultValueOrThrow(i, r) ==
    IF ~HasValue(r)
    THEN IF ErrorCodeThrowAsException(i, r.error) # NoExc
         THEN Thrown(ErrorCodeThrowAsException(i, r.error))
         ELSE ResultValue(r)
    ELSE ResultValue(r)

ValueOrThrow(i) ==
    /\ IsV /\ Normal /\ Live(i)
    /\ Observe("ValueOrThrow", i, "none", ResultValueOrThrow(i, res[i]))

\* callables handed to Resolve: value_type f(error_type const&); both
\* return an int that is converted to value_type by ValueTest(int)
ResolveFns == {"zero", "data"}

ApplyResolveFn(f, e) ==
    IF f = "zero"
    THEN ValueTest([kind |-> "int", i |-> 0, s |-> "Init"])
    ELSE ValueTest([kind |-> "int", i |-> e.data % (MaxInt + 1), s |-> "Init"])

\* a Resolve that asks the callable whichever side is held
ResultResolveAlwaysCalls(r, f) ==
    Invoking(Returned(ApplyResolveFn(f, r.error)), r.error)

\* value_type Resolve(F&& f) const
ResultResolve(r, f) ==
    IF HasValue(r)
    THEN ResultValue(r)
    ELSE IF r.tag = "error"
         THEN Invoking(Returned(ApplyResolveFn(f, r.error)), r.error)
         ELSE Thrown(BadVariantAccess)

Resolve(i, f) ==
    /\ IsV /\ Normal /\ Live(i)
    /\ Observe("Resolve", i, f, ResultResolve(res[i], f))

\* callables handed to Bind, by the type they return:
\*   "T"      value_type f(value_type)
\*   "Result" Result<value_type, error_type> f(value_type)
\*   "other"  a type that converts to value_type but is neither of the two
\*            (for instance a class derived from value_type)
BindFns ==
    [shape : {"T"}, name : {"id", "inc"}]
        \cup [shape : {"Result"}, name : {"ok", "fail"}]
        \cup [shape : {"other"}, name : {"id"}]

Inc(v) == ValueTest([kind |-> "int", i |-> (v.intVal + 1) % (MaxInt + 1), s |-> "Init"])

\* f(value) for the callables returning value_type (or converting to it)
ApplyBindFnT(f, v) == IF f.name = "id" THEN v ELSE Inc(v)

\* f(value) for the callables returning a Result
ApplyBindFnResult(f, v) ==
    IF f.name = "ok" THEN ResultOfValue(Inc(v))
                     ELSE ResultOfError(MakeErrorCode(kInvalidArgument, 0))

\* a Bind that wraps the held value and drops what the callable returned
ResultBindKeepsValue(r, f) ==
    IF HasValue(r) THEN Invoking(Returned(ResultOfValue(r.value)), r.value)
                   ELSE Returned(ResultOfError(r.error))

\* a Bind that invokes the callable before looking at the side held
ResultBindCallsFirst(r, f) ==
    IF HasValue(r) THEN Invoking(Returned(ResultOfValue(ApplyBindFnT(f, r.value))), r.value)
                   ELSE Invoking(Returned(ResultOfError(r.error)), r.value)

\* template<typename F> Result Bind(F&& f)
ResultBind(r, f) ==
    IF HasValue(r)
    THEN IF f.shape = "T"                       \* typeid(value) == typeid(f(value))
         THEN Invoking(Returned(ResultOfValue(ApplyBindFnT(f, r.value))), r.value)
         ELSE IF f.shape = "Result"             \* typeid(*this) == typeid(f(value))
              THEN Invoking(Returned(ApplyBindFnResult(f, r.value)), r.value)
              ELSE \* nothing to do: falls through to the error branch
                   IF ResultError(r).out = "returned"
                   THEN Returned(ResultOfError(ResultError(r).ret))
                   ELSE ResultError(r)
    ELSE IF ResultError(r).out = "returned"
         THEN Returned(ResultOfError(ResultError(r).ret))
         ELSE ResultError(r)

Bind(i, f) ==
    /\ IsV /\ Normal /\ Live(i)
    /\ Observe("Bind", i, f, ResultBind(res[i], f))

\* ------------------------------------------- Result<void,E> (result.h)
IsVoid == impl = "void"

\* Result() noexcept : result_{no_error_type()}
VoidResult == ConstructValue(Absent, NoVal)

VoidConstruct(i) ==
    /\ IsVoid /\ Normal /\ ~Live(i)
    /\ res' = [res EXCEPT ![i] = VoidResult]
    /\ last' = Op("Result()", i, "none", "none", "none", "returned")
    /\ UNCHANGED <<impl, ecode, exc>>

\* static Result FromError(error_type const& e) { return Result(e); }
VoidFromError(i, e) ==
    /\ IsVoid /\ Normal /\ ~Live(i)
    /\ res' = [res EXCEPT ![i] = ResultOfError(e)]
    /\ last' = Op("FromError", i, "lvalue", e, "none", "returned")
    /\ UNCHANGED <<impl, ecode, exc>>

\* void EmplaceValue(Args&&...): result_.emplace<no_error_type>(no_error_type())
VoidEmplaceValue(i) ==
    /\ IsVoid /\ Live(i)
    /\ res' = [res EXCEPT ![i] = VariantEmplaceValue(res[i], NoVal)]
    /\ last' = Op("EmplaceValue", i, res[i].tag, "none", "none", "returned")
    /\ UNCHANGED <<impl, ecode, exc>>

VoidEmplaceError(i, args) ==
    /\ IsVoid /\ Live(i)
    /\ res' = [res EXCEPT ![i] = VariantEmplaceError(res[i], ErrorCode(args))]
    /\ last' = Op("EmplaceError", i, res[i].tag, args, "none", "returned")
    /\ UNCHANGED <<impl, ecode, exc>>

VoidDestroy(i) ==
    /\ IsVoid /\ Live(i)
    /\ res' = [res EXCEPT ![i] = [DestroyActive(res[i]) EXCEPT !.alive = FALSE, !.tag = "none"]]
    /\ last' = WithSteps(Op("~Result", i, "none", "none", "none", "returned"),
                         VariantDestroySteps("this", res[i]))
    /\ UNCHANGED <<impl, ecode, exc>>

\* a HasValue that reports the error side as the value side
VoidHasValueInverted(r) == r.tag = "error"

\* bool HasValue(): ! std::holds_alternative<error_type>(result_)
VoidHasValue(r) == ~(r.tag = "error")

\* void ValueOrThrow() const
\*   if (! HasValue()) std::get<error_type>(result_).ThrowAsException();
\*   return;
VoidResultValueOrThrow(i, r) ==
    IF ~VoidHasValue(r)
    THEN IF ErrorCodeThrowAsException(i, r.error) # NoExc
         THEN Thrown(ErrorCodeThrowAsException(i, r.error))
         ELSE Returned("void")
    ELSE Returned("void")

VoidValueOrThrow(i) ==
    /\ IsVoid /\ Normal /\ Live(i)
    /\ Observe("ValueOrThrow", i, "none", VoidResultValueOrThrow(i, res[i]))

\* void Resolve(F&& f) const: if (! HasValue()) return f(error); return;
VoidResultResolve(r, f) ==
    IF ~VoidHasValue(r) THEN Invoking(Returned("void"), r.error)
                        ELSE Returned("void")

VoidResolve(i, f) ==
    /\ IsVoid /\ Normal /\ Live(i)
    /\ Observe("Resolve", i, f, VoidResultResolve(res[i], f))

\* ------------------------------- Result<T,E>, raw-union draft (part_006)
IsDraft == impl = "draft"

\* operator==(T, T) of a value_type that is equality comparable
ValueEq(lhs, rhs) == lhs = rhs

\* Result(value_type const& t) : value_{t}, hasValue_{true}
DraftOfValue(t) == ConstructValue(Absent, t)

\* Result(error_type const& e) : error_{e}, hasValue_{false}
DraftOfError(e) == ConstructError(Absent, e)

\* the union member that is not active shares its bytes with the active
\* one: reading it is undefined and may produce any object of its type
DraftReadValue(r) == IF r.tag = "value" THEN {r.value} ELSE Values
DraftReadError(r) == IF r.tag = "error" THEN {r.error} ELSE Errors

\* void EmplaceValue(Args&&... args), args already evaluated to v
\*   if (hasValue_) value_ = value_type(args...);
\*   else { error_.~error_type(); hasValue_ = true; ::new (&value_) value_type(args...); }
\* the assignment writes the members of value_ whether or not an object
\* was ever constructed there; it does not begin a lifetime
DraftEmplaceValue(r, v) ==
    IF r.tag = "value"
    THEN {[r EXCEPT !.value = v]}
    ELSE {[r EXCEPT !.eLive = FALSE, !.error = NoErr,
                    !.tag = "value", !.vLive = TRUE, !.value = v]}

\* void EmplaceError(Args&&... args), args already evaluated to e
DraftEmplaceError(r, e) ==
    IF r.tag = "error"
    THEN {[r EXCEPT !.error = e]}
    ELSE {[r EXCEPT !.vLive = FALSE, !.value = NoVal,
                    !.tag = "error", !.eLive = TRUE, !.error = e]}

\* the steps of EmplaceValue / EmplaceError: an assignment to the member
\* when the requested side is the one hasValue_ names, else the destructor
\* of the other member followed by placement new
DraftEmplaceSteps(inst, r, side) ==
    IF r.tag = side
    THEN <<Step("assign", inst, side, r)>>
    ELSE IF side = "value"
    THEN <<Step("destroy", inst, "error", r),
           Step("construct", inst, "value", [r EXCEPT !.eLive = FALSE])>>
    ELSE <<Step("destroy", inst, "value", r),
           Step("construct", inst, "error", [r EXCEPT !.vLive = FALSE])>>

\* the steps of the copy and move constructors: hasValue_ is set first, so
\* Emplace* takes its assignment branch on a member never constructed
DraftCopySteps(other) ==
    DraftEmplaceSteps("this", [Absent EXCEPT !.alive = TRUE, !.tag = other.tag], other.tag)

\* the steps of ~Result(): the destructor of the member hasValue_ names
DraftDestroySteps(r) == <<Step("destroy", "this", r.tag, r)>>

\* Result(Result const& other)
\*   hasValue_ = other.hasValue_;
\*   if (hasValue_) EmplaceValue(other.value_); else EmplaceError(other.error_);
\* no member of the union has been initialised when Emplace* runs
DraftCopy(other) ==
    IF other.tag = "value"
    THEN UNION {DraftEmplaceValue([Absent EXCEPT !.alive = TRUE, !.tag = "value"], v) :
                    v \in DraftReadValue(other)}
    ELSE UNION {DraftEmplaceError([Absent EXCEPT !.alive = TRUE, !.tag = "error"], e) :
                    e \in DraftReadError(other)}

\* bool operator==(Result const& lhs, Result const& rhs): the set of
\* answers the comparison may give
DraftEq(lhs, rhs) ==
    IF lhs.tag = "value" /\ rhs.tag = "value"
    THEN {ValueEq(x, y) : x \in DraftReadValue(lhs), y \in DraftReadValue(rhs)}
    ELSE {FALSE}

\* the cross-state branch of Swap, *this holding the value:
\*   auto tempValue = std::move(Value()); auto tempError = std::move(Error());
\*   EmplaceError(tempError); other.EmplaceValue(tempValue);
\* both temporaries are read from *this, whose error side is not active
DraftSwapCross(r, o) ==
    {<<r2, o2>> : r2 \in UNION {DraftEmplaceError(r, te) : te \in DraftReadError(r)},
                  o2 \in UNION {DraftEmplaceValue(o, tv) : tv \in DraftReadValue(r)}}

\* void Swap(Result& other): the set of possible <<new *this, new other>>
DraftSwap(r, o) ==
    IF r.tag = "value" /\ o.tag = "value"
    THEN {<<[r EXCEPT !.value = y], [o EXCEPT !.value = x]>> :
              x \in DraftReadValue(r), y \in DraftReadValue(o)}
    ELSE IF r.tag = "error" /\ o.tag = "error"
    THEN {<<[r EXCEPT !.error = y], [o EXCEPT !.error = x]>> :
              x \in DraftReadError(r), y \in DraftReadError(o)}
    ELSE IF r.tag = "value" /\ o.tag = "error"
    THEN DraftSwapCross(r, o)
    ELSE \* other.Swap(*this)
         {<<p[2], p[1]>> : p \in DraftSwapCross(o, r)}

\* the steps of the cross-state branch, run on the instance named ri that
\* holds the value, with the instance named oi as its argument: both
\* temporaries are taken from ri, then ri.EmplaceError and oi.EmplaceValue
DraftSwapCrossSteps(ri, r, oi, o) ==
    <<Step("read", ri, "value", r), Step("read", ri, "error", r)>>
        \o DraftEmplaceSteps(ri, r, "error")
        \o DraftEmplaceSteps(oi, o, "value")

\* the steps of Swap; `other.Swap(*this)` runs the cross-state branch on
\* other
DraftSwapSteps(r, o) ==
    IF r.tag = o.tag
    THEN <<Step("read", "this", r.tag, r), Step("read", "other", o.tag, o),
           Step("assign", "this", r.tag, r), Step("assign", "other", o.tag, o)>>
    ELSE IF r.tag = "value"
    THEN DraftSwapCrossSteps("this", r, "other", o)
    ELSE DraftSwapCrossSteps("other", o, "this", r)

\* Result& operator=(Result const& other)
\*   if (*this == other) return *this;  Swap(other);  return *this;
DraftAssign(r, o) ==
    UNION {IF eq THEN {<<r, o>>} ELSE DraftSwap(r, o) : eq \in DraftEq(r, o)}

DraftConstructFromValue(i, t) ==
    /\ IsDraft /\ ~Live(i)
    /\ res' = [res EXCEPT ![i] = DraftOfValue(t)]
    /\ last' = Op("Result(value)", i, "none", t, "none", "returned")
    /\ UNCHANGED <<impl, ecode, exc>>

DraftConstructFromError(i, e) ==
    /\ IsDraft /\ ~Live(i)
    /\ res' = [res EXCEPT ![i] = DraftOfError(e)]
    /\ last' = Op("Result(error)", i, "none", e, "none", "returned")
    /\ UNCHANGED <<impl, ecode, exc>>

DraftCopyConstruct(i, j) ==
    /\ IsDraft /\ ~Live(i) /\ Live(j)
    /\ \E n \in DraftCopy(res[j]) : res' = [res EXCEPT ![i] = n]
    /\ last' = WithSteps(Op("Result(copy)", i, j, "none", "none", "returned"),
                         DraftCopySteps(res[j]))
    /\ UNCHANGED <<impl, ecode, exc>>

\* Result(Result const&& other): same body with std::move of const members
DraftMoveConstruct(i, j) ==
    /\ IsDraft /\ ~Live(i) /\ Live(j)
    /\ \E n \in DraftCopy(res[j]) : res' = [res EXCEPT ![i] = n]
    /\ last' = WithSteps(Op("Result(move)", i, j, "none", "none", "returned"),
                         DraftCopySteps(res[j]))
    /\ UNCHANGED <<impl, ecode, exc>>

\* ~Result(): if (hasValue_) value_.~value_type(); else error_.~error_type();
DraftDestroy(i) ==
    /\ IsDraft /\ Live(i)
    /\ res' = [res EXCEPT ![i] = Absent]
    /\ last' = WithSteps(Op("~Result", i, "none", "none", "none", "returned"),
                         DraftDestroySteps(res[i]))
    /\ UNCHANGED <<impl, ecode, exc>>

DraftCallEmplaceValue(i, args) ==
    /\ IsDraft /\ Live(i)
    /\ \E n \in DraftEmplaceValue(res[i], ValueTest(args)) :
           res' = [res EXCEPT ![i] = n]
    /\ last' = WithSteps(Op("EmplaceValue", i, res[i].tag, args, "none", "returned"),
                         DraftEmplaceSteps("this", res[i], "value"))
    /\ UNCHANGED <<impl, ecode, exc>>

DraftCallEmplaceError(i, args) ==
    /\ IsDraft /\ Live(i)
    /\ \E n \in DraftEmplaceError(res[i], ErrorCode(args)) :
           res' = [res EXCEPT ![i] = n]
    /\ last' = WithSteps(Op("EmplaceError", i, res[i].tag, args, "none", "returned"),
                         DraftEmplaceSteps("this", res[i], "error"))
    /\ UNCHANGED <<impl, ecode, exc>>

DraftCallSwap(i, j) ==
    /\ IsDraft /\ Live(i) /\ Live(j) /\ i # j
    /\ \E p \in DraftSwap(res[i], res[j]) :
           res' = [res EXCEPT ![i] = p[1], ![j] = p[2]]
    /\ last' = WithSteps(Op("Swap", i, j, <<res[i], res[j]>>, SwapRun(i, j), "returned"),
                         DraftSwapSteps(res[i], res[j]))
    /\ UNCHANGED <<impl, ecode, exc>>

DraftCopyAssign(i, j) ==
    /\ IsDraft /\ Live(i) /\ Live(j) /\ i # j
    /\ \E p \in DraftAssign(res[i], res[j]) :
           res' = [res EXCEPT ![i] = p[1], ![j] = p[2]]
    /\ last' = Op("CopyAssign", i, j, <<res[i], res[j]>>, "none", "returned")
    /\ UNCHANGED <<impl, ecode, exc>>

\* --------------------------------- a stand-alone ErrorCode and Exception
IsErrc == impl = "errc"

\* core::ErrorCode error = core::MakeErrorCode(code, data);
LocalConstruct(args) ==
    /\ IsErrc /\ Normal /\ ~ecode.alive
    /\ ecode' = [alive |-> TRUE, code |-> ErrorCode(args)]
    /\ last' = Op("ErrorCode", "local", "none", args, "none", "returned")
    /\ UNCHANGED <<impl, res, exc>>

\* error = core::MakeErrorCode(code, data);  (implicit copy assignment)
LocalAssign(args) ==
    /\ IsErrc /\ ecode.alive
    /\ ecode' = [alive |-> TRUE, code |-> ErrorCode(args)]
    /\ last' = Op("ErrorCode=", "local", "none", args, "none", "returned")
    /\ UNCHANGED <<impl, res, exc>>

\* the ErrorCode object goes out of scope
LocalDestroy ==
    /\ IsErrc /\ ecode.alive
    /\ ecode' = NoLocal
    /\ last' = Op("~ErrorCode", "local", "none", "none", "none", "returned")
    /\ UNCHANGED <<impl, res, exc>>

\* core::CoreException ex{error};
LocalException ==
    /\ IsErrc /\ Normal /\ ecode.alive
    /\ exc' = CoreException("local", ecode.code)
    /\ last' = Op("CoreException", "local", "none", ecode.code, "none", "returned")
    /\ UNCHANGED <<impl, res, ecode>>

\* error.ThrowAsException();
LocalThrow ==
    /\ IsErrc /\ Normal /\ ecode.alive
    /\ ErrorCodeThrowAsException("local", ecode.code) # NoExc
    /\ exc' = ErrorCodeThrowAsException("local", ecode.code)
    /\ last' = Op("ThrowAsException", "local", "none", ecode.code, "none", "thrown")
    /\ UNCHANGED <<impl, res, ecode>>

\* core::MakeErrorCode(code, data).ThrowAsException();
\* the ErrorCode is a temporary of the throwing expression: it is destroyed
\* while the stack unwinds, before the handler runs
TemporaryThrow(args) ==
    /\ IsErrc /\ Normal
    /\ ErrorCodeThrowAsException("temporary", ErrorCode(args)) # NoExc
    /\ exc' = ErrorCodeThrowAsException("temporary", ErrorCode(args))
    /\ last' = Op("ThrowAsException", "temporary", "none", ErrorCode(args), "none", "thrown")
    /\ UNCHANGED <<impl, res, ecode>>

\* ------------------------------------------------ the caught exception
\* ex.Error() in the handler that caught the exception
CallExceptionError ==
    /\ exc.kind = "CoreException"
    /\ \E e \in ExceptionError(exc) :
           last' = Op("Exception::Error", exc.ref, "none", exc.given, e, "returned")
    /\ UNCHANGED <<impl, res, ecode, exc>>

\* the handler ends, the exception object is destroyed
HandlerExit ==
    /\ exc.kind # "none"
    /\ exc' = NoExc
    /\ last' = Op("~Exception", "none", "none", "none", "none", "returned")
    /\ UNCHANGED <<impl, res, ecode>>

Next ==
    \/ IsV /\ \E i \in Insts, t \in Values : ConstructFromValue(i, t)
    \/ IsV /\ \E i \in Insts, e \in Errors : ConstructFromError(i, e)
    \/ IsV /\ \E i, j \in Insts : CopyConstruct(i, j)
    \/ IsV /\ \E i, j \in Insts : MoveConstruct(i, j)
    \/ IsV /\ \E i \in Insts : Destroy(i)
    \/ IsV /\ \E i \in Insts, t \in Values : FromValueLvalue(i, t)
    \/ IsV /\ \E i \in Insts, t \in Values : FromValueRvalue(i, t)
    \/ IsV /\ \E i \in Insts, args \in ValueArgs : FromValueArgs(i, args)
    \/ IsV /\ \E i \in Insts, e \in Errors : FromErrorLvalue(i, e)
    \/ IsV /\ \E i \in Insts, e \in Errors : FromErrorRvalue(i, e)
    \/ IsV /\ \E i \in Insts, args \in ErrorArgs : FromErrorArgs(i, args)
    \/ IsV /\ \E i, j \in Insts : CopyAssign(i, j)
    \/ IsV /\ \E i, j \in Insts : MoveAssign(i, j)
    \/ IsV /\ \E i \in Insts, args \in ValueArgs : EmplaceValue(i, args)
    \/ IsV /\ \E i \in Insts, args \in ErrorArgs : EmplaceError(i, args)
    \/ IsV /\ \E i, j \in Insts : Swap(i, j)
    \/ IsV /\ \E i, j \in Insts : FreeSwap(i, j)
    \/ IsV /\ \E i \in Insts : CallHasValue(i)
    \/ IsV /\ \E i \in Insts : CallValue(i)
    \/ IsV /\ \E i \in Insts : CallError(i)
    \/ IsV /\ \E i \in Insts : ValueOrThrow(i)
    \/ IsV /\ \E i \in Insts, f \in ResolveFns : Resolve(i, f)
    \/ IsV /\ \E i \in Insts, f \in BindFns : Bind(i, f)
    \/ IsVoid /\ \E i \in Insts : VoidConstruct(i)
    \/ IsVoid /\ \E i \in Insts, e \in Errors : VoidFromError(i, e)
    \/ IsVoid /\ \E i \in Insts : VoidEmplaceValue(i)
    \/ IsVoid /\ \E i \in Insts, args \in ErrorArgs : VoidEmplaceError(i, args)
    \/ IsVoid /\ \E i \in Insts : VoidDestroy(i)
    \/ IsVoid /\ \E i \in Insts : VoidValueOrThrow(i)
    \/ IsVoid /\ \E i \in Insts, f \in ResolveFns : VoidResolve(i, f)
    \/ IsDraft /\ \E i \in Insts, t \in Values : DraftConstructFromValue(i, t)
    \/ IsDraft /\ \E i \in Insts, e \in Errors : DraftConstructFromError(i, e)
    \/ IsDraft /\ \E i, j \in Insts : DraftCopyConstruct(i, j)
    \/ IsDraft /\ \E i, j \in Insts : DraftMoveConstruct(i, j)
    \/ IsDraft /\ \E i \in Insts : DraftDestroy(i)
    \/ IsDraft /\ \E i \in Insts, args \in ValueArgs : DraftCallEmplaceValue(i, args)
    \/ IsDraft /\ \E i \in Insts, args \in ErrorArgs : DraftCallEmplaceError(i, args)
    \/ IsDraft /\ \E i, j \in Insts : DraftCallSwap(i, j)
    \/ IsDraft /\ \E i, j \in Insts : DraftCopyAssign(i, j)
    \/ IsErrc /\ \E args \in ErrorArgs : LocalConstruct(args)
    \/ IsErrc /\ \E args \in ErrorArgs : LocalAssign(args)
    \/ LocalDestroy
    \/ LocalException
    \/ LocalThrow
    \/ IsErrc /\ \E args \in ErrorArgs : TemporaryThrow(args)
    \/ CallExceptionError
    \/ HandlerExit

Spec == Init /\ [][Next]_vars

\* ------------------------------ const observers and comparison operators
\* lhs.HasValue() of the instantiated class template
ResultHasValue(r) == IF impl = "void" THEN VoidHasValue(r) ELSE HasValue(r)

\* defaults handed to ValueOr: U is int (tests) or value_type itself
ValueDefaults ==
    [conv : {"int"}, i : 0..MaxInt, s : {"Init"}]
        \cup [conv : {"T"}, i : 0..MaxInt, s : Strings]

\* static_cast<value_type>(defaultValue)
ToValueType(d) ==
    IF d.conv = "int"
    THEN ValueTest([kind |-> "int", i |-> d.i, s |-> "Init"])
    ELSE [intVal |-> d.i, stringVal |-> d.s]

\* defaults / candidates handed to ErrorOr and CheckError: G is a CoreErrc
\* enumerator or error_type itself
ErrorDefaults ==
    [conv : {"enum"}, code : CoreErrc, data : {0}]
        \cup [conv : {"E"}, code : CoreErrc, data : 0..MaxData]

\* static_cast<error_type>(defaultError)
ToErrorType(d) ==
    IF d.conv = "enum"
    THEN ErrorCode([kind |-> "enum", code |-> d.code, domain |-> "Core", data |-> 0])
    ELSE ErrorCodeRaw(d.code, GetCoreErrorDomain, d.data)

\* a ValueOr that hands back the default whichever side is held
ResultValueOrDefaultOnly(r, d) == Returned(ToValueType(d))

\* template<typename U> value_type ValueOr(U&& defaultValue) const& / &&
\*   if (HasValue()) return std::get<value_type>(result_);
\*   return static_cast<value_type>(defaultValue);
ResultValueOr(r, d) ==
    IF HasValue(r) THEN ResultValue(r) ELSE Returned(ToValueType(d))

\* an ErrorOr that tests the side the wrong way round
ResultErrorOrInverted(r, d) ==
    IF HasValue(r) THEN Returned(r.error) ELSE Returned(ToErrorType(d))

\* template<typename G> error_type ErrorOr(G&& defaultError) const
\*   if (! HasValue()) return std::get<error_type>(result_);
\*   return static_cast<error_type>(defaultError);
ResultErrorOr(r, d) ==
    IF ~HasValue(r) THEN ResultError(r) ELSE Returned(ToErrorType(d))

\* Result<void,E>::ErrorOr, the same body over the void specialisation
VoidResultErrorOr(r, d) ==
    IF ~VoidHasValue(r) THEN ResultError(r) ELSE Returned(ToErrorType(d))

\* a CheckError that also compares the support data
ResultCheckErrorExact(r, c) ==
    IF HasValue(r) THEN Returned(FALSE) ELSE Returned(ToErrorType(c) = r.error)

\* template<typename G> bool CheckError(G&& error) const
\*   if (HasValue()) return false;
\*   return static_cast<error_type>(error) == std::get<error_type>(result_) ? true : false;
ResultCheckError(r, c) ==
    IF HasValue(r)
    THEN Returned(FALSE)
    ELSE IF ResultError(r).out = "returned"
         THEN Returned(ErrorCodeEq(ToErrorType(c), ResultError(r).ret))
         ELSE ResultError(r)

\* an operator== that also calls two error-holding instances equal when
\* their errors are
ResultEqBothSides(lhs, rhs) ==
    IF ResultHasValue(lhs) /\ ResultHasValue(rhs)
    THEN ValueEq(lhs.value, rhs.value)
    ELSE ~ResultHasValue(lhs) /\ ~ResultHasValue(rhs) /\ ErrorCodeEq(lhs.error, rhs.error)

\* bool operator==(Result<T,E> const& lhs, Result<T,E> const& rhs)
\*   if (lhs.HasValue() && rhs.HasValue()) return lhs.Value() == rhs.Value();
\*   return false;
ResultEq(lhs, rhs) ==
    IF ResultHasValue(lhs) /\ ResultHasValue(rhs)
    THEN ValueEq(ResultValue(lhs).ret, ResultValue(rhs).ret)
    ELSE FALSE

\* bool operator!=(Result<T,E> const& lhs, Result<T,E> const& rhs)
ResultNe(lhs, rhs) == ~ResultEq(lhs, rhs)

\* an operator==(Result, T) that answers for the error side as well
ResultEqValueAnySide(lhs, rhs) == ValueEq(lhs.value, rhs) \/ ~ResultHasValue(lhs)

\* bool operator==(Result<T,E> const& lhs, T const& rhs)
\*   if (lhs.HasValue()) return lhs.Value() == rhs;  return false;
ResultEqValue(lhs, rhs) ==
    IF ResultHasValue(lhs) THEN ValueEq(ResultValue(lhs).ret, rhs) ELSE FALSE

\* bool operator==(T const& lhs, Result<T,E> const& rhs): rhs == lhs
ValueEqResult(lhs, rhs) == ResultEqValue(rhs, lhs)

\* bool operator!=(Result<T,E> const& lhs, T const& rhs): ! (lhs == rhs)
ResultNeValue(lhs, rhs) == ~ResultEqValue(lhs, rhs)

\* bool operator!=(T const& lhs, Result<T,E> const& rhs): ! (rhs == lhs)
ValueNeResult(lhs, rhs) == ~ResultEqValue(rhs, lhs)

\* bool operator==(Result<T,E> const& lhs, E const& rhs)
\*   if (! lhs.HasValue()) return lhs.Error() == rhs;  return false;
ResultEqError(lhs, rhs) ==
    IF ~ResultHasValue(lhs) THEN ErrorCodeEq(ResultError(lhs).ret, rhs) ELSE FALSE

\* bool operator==(E const& lhs, Result<T,E> const& rhs): rhs == lhs
ErrorEqResult(lhs, rhs) == ResultEqError(rhs, lhs)

\* bool operator!=(Result<T,E> const& lhs, E const& rhs): ! (lhs == rhs)
ResultNeError(lhs, rhs) == ~ResultEqError(lhs, rhs)

\* bool operator!=(E const& lhs, Result<T,E> const& rhs): ! (rhs == lhs)
ErrorNeResult(lhs, rhs) == ~ResultEqError(rhs, lhs)

\* r.ValueOr(d) ("lvalue") and std::move(r).ValueOr(d) ("rvalue")
\* void Value() const { return; } and void operator*() const { return; }
\* of Result<void,E>: nothing is read and nothing is handed back
VoidCallValue(i, acc) ==
    /\ IsVoid /\ Normal /\ Live(i)
    /\ Observe(acc, i, "none", Returned("void"))

\* error_type const& Error() const& of Result<void,E>
VoidCallError(i) ==
    /\ IsVoid /\ Normal /\ Live(i)
    /\ Observe("Error", i, "none", ResultError(res[i]))

CallValueOr(i, form, d) ==
    /\ IsV /\ Normal /\ Live(i)
    /\ Observe("ValueOr", i, [form |-> form, d |-> d, self |-> res[i]],
               ResultValueOr(res[i], d))

CallErrorOr(i, d) ==
    /\ IsV /\ Normal /\ Live(i)
    /\ Observe("ErrorOr", i, [d |-> d, self |-> res[i]], ResultErrorOr(res[i], d))

VoidCallErrorOr(i, d) ==
    /\ IsVoid /\ Normal /\ Live(i)
    /\ Observe("ErrorOr", i, [d |-> d, self |-> res[i]], VoidResultErrorOr(res[i], d))

CallCheckError(i, c) ==
    /\ IsV /\ Normal /\ Live(i)
    /\ Observe("CheckError", i, c, ResultCheckError(res[i], c))

\* the Result-Result operators; i = j compares an instance with itself
ResultComparisons == {"r==r", "r!=r"}

CompareResults(i, j, form) ==
    /\ IsV /\ Normal /\ Live(i) /\ Live(j)
    /\ last' = Op(form, i, j, <<res[i], res[j]>>,
                  IF form = "r==r" THEN ResultEq(res[i], res[j])
                                   ELSE ResultNe(res[i], res[j]),
                  "returned")
    /\ UNCHANGED <<impl, res, ecode, exc>>

\* the four Result-value operators
ValueComparisons == {"r==t", "t==r", "r!=t", "t!=r"}

ApplyValueComparison(form, r, t) ==
    CASE form = "r==t" -> ResultEqValue(r, t)
      [] form = "t==r" -> ValueEqResult(t, r)
      [] form = "r!=t" -> ResultNeValue(r, t)
      [] form = "t!=r" -> ValueNeResult(t, r)

CompareWithValue(i, t, form) ==
    /\ IsV /\ Normal /\ Live(i)
    /\ Observe("cmpT", i, [form |-> form, t |-> t],
               Returned(ApplyValueComparison(form, res[i], t)))

\* the four Result-error operators, for Result<T,E> and Result<void,E>
ErrorComparisons == {"r==e", "e==r", "r!=e", "e!=r"}

ApplyErrorComparison(form, r, e) ==
    CASE form = "r==e" -> ResultEqError(r, e)
      [] form = "e==r" -> ErrorEqResult(e, r)
      [] form = "r!=e" -> ResultNeError(r, e)
      [] form = "e!=r" -> ErrorNeResult(e, r)

CompareWithError(i, e, form) ==
    /\ (IsV \/ IsVoid) /\ Normal /\ Live(i)
    /\ Observe("cmpE", i, [form |-> form, e |-> e],
               Returned(ApplyErrorComparison(form, res[i], e)))

\* the states a live Result<T,E> / Result<void,E> can be in
ResultStates ==
    {ResultOfValue(v) : v \in Values} \cup {ResultOfError(e) : e \in Errors}
VoidStates == {VoidResult} \cup {ResultOfError(e) : e \in Errors}

\* ErrorCode == / != on two codes
CompareErrorCodes(lhs, rhs, form) ==
    /\ IsErrc /\ Normal
    /\ last' = Op(form, "none", "none", <<lhs, rhs>>,
                  IF form = "e==e" THEN ErrorCodeEq(lhs, rhs) ELSE ErrorCodeNe(lhs, rhs),
                  "returned")
    /\ UNCHANGED <<impl, res, ecode, exc>>

\* ErrorDomain == / != on two domain objects
CompareDomains(d1, d2, form) ==
    /\ IsErrc /\ Normal
    /\ last' = Op(form, "none", "none", <<d1, d2>>,
                  IF form = "d==d" THEN DomainEq(d1, d2) ELSE DomainNe(d1, d2),
                  "returned")
    /\ UNCHANGED <<impl, res, ecode, exc>>

\* a call of GetCoreErrorDomain()
CallGetCoreErrorDomain ==
    /\ IsErrc /\ Normal
    /\ last' = Op("GetCoreErrorDomain", "none", "none", "none",
                  GetCoreErrorDomain, "returned")
    /\ UNCHANGED <<impl, res, ecode, exc>>

\* c.Message() on an ErrorCode
CallMessage(c) ==
    /\ IsErrc /\ Normal
    /\ last' = Op("ErrorCode::Message", "none", "none", c, ErrorCodeMessage(c), "returned")
    /\ UNCHANGED <<impl, res, ecode, exc>>

\* GetCoreErrorDomain().Message(code)
CallCoreMessage(errorCode) ==
    /\ IsErrc /\ Normal
    /\ last' = Op("CoreErrorDomain::Message", "none", "none", errorCode,
                  DomainMessage(GetCoreErrorDomain, errorCode), "returned")
    /\ UNCHANGED <<impl, res, ecode, exc>>

\* what the three accessors report for an ErrorCode just built
Components(c) ==
    [value |-> ErrorCodeValue(c), domain |-> ErrorCodeDomain(c),
     data |-> ErrorCodeSupportData(c)]

\* MakeErrorCode(code, data) ("factory") and ErrorCode(code, data) ("enum")
BuildErrorCode(how, code, data) ==
    /\ IsErrc /\ Normal
    /\ last' = Op("BuildErrorCode", "none", how, [code |-> code, data |-> data],
                  Components(IF how = "factory"
                             THEN MakeErrorCode(code, data)
                             ELSE ErrorCode([kind |-> "enum", code |-> code,
                                             domain |-> "Core", data |-> data])),
                  "returned")
    /\ UNCHANGED <<impl, res, ecode, exc>>

\* the operands of one observer call, drawn from every state they can be in
ObserverInit ==
    /\ impl \in {"variant", "void", "errc"}
    /\ res \in [Insts -> CASE impl = "variant" -> ResultStates
                           [] impl = "void" -> VoidStates
                           [] impl = "errc" -> {Absent}]
    /\ ecode = NoLocal
    /\ exc = NoExc
    /\ last = Op("none", "none", "none", "none", "none", "returned")

\* no observer has been applied to the drawn operands yet
Fresh == last.op = "none"

\* the observers of Result<T,E> and the comparison operators
ObserverOps ==
    {"HasValue", "operator bool", "Value", "operator*", "operator->", "Error",
     "ValueOr", "ErrorOr", "CheckError", "Resolve", "Bind", "cmpT", "cmpE"}
        \cup ResultComparisons

\* one observer call on the drawn operands
ObserverNext ==
    \/ Fresh /\ \E i \in Insts, f \in {"lvalue", "rvalue"}, d \in ValueDefaults :
                    CallValueOr(i, f, d)
    \/ Fresh /\ \E i \in Insts, d \in ErrorDefaults : CallErrorOr(i, d)
    \/ Fresh /\ \E i \in Insts, d \in ErrorDefaults : VoidCallErrorOr(i, d)
    \/ Fresh /\ \E i \in Insts, c \in ErrorDefaults : CallCheckError(i, c)
    \/ Fresh /\ \E i, j \in Insts, f \in ResultComparisons : CompareResults(i, j, f)
    \/ Fresh /\ \E i \in Insts, t \in Values, f \in ValueComparisons :
                    CompareWithValue(i, t, f)
    \/ Fresh /\ \E i \in Insts, e \in Errors, f \in ErrorComparisons :
                    CompareWithError(i, e, f)
    \/ Fresh /\ \E lhs, rhs \in AnyErrors, f \in {"e==e", "e!=e"} :
                    CompareErrorCodes(lhs, rhs, f)
    \/ Fresh /\ \E d1, d2 \in DOMAIN DomainObjects, f \in {"d==d", "d!=d"} :
                    CompareDomains(d1, d2, f)
    \/ Fresh /\ CallGetCoreErrorDomain
    \/ Fresh /\ \E c \in AnyErrors : CallMessage(c)
    \/ Fresh /\ \E how \in {"factory", "enum"}, code \in CoreErrc, data \in 0..MaxData :
                    BuildErrorCode(how, code, data)
    \/ Fresh /\ \E errorCode \in CodeTypes : CallCoreMessage(errorCode)
    \/ Fresh /\ \E i \in Insts, acc \in {"Value", "operator*"} : VoidCallValue(i, acc)
    \/ Fresh /\ \E i \in Insts : VoidCallError(i)
    \/ Fresh /\ \E i \in Insts : CallHasValue(i)
    \/ Fresh /\ \E i \in Insts : CallOperatorBool(i)
    \/ Fresh /\ \E i \in Insts : CallValue(i)
    \/ Fresh /\ \E i \in Insts : CallOperatorStar(i)
    \/ Fresh /\ \E i \in Insts : CallOperatorArrow(i)
    \/ Fresh /\ \E i \in Insts : CallError(i)
    \/ Fresh /\ \E i \in Insts, f \in ResolveFns : Resolve(i, f)
    \/ (Fresh \/ last.op = "Bind") /\ \E i \in Insts, f \in BindFns : Bind(i, f)

ObserverSpec == ObserverInit /\ [][ObserverNext]_vars

\* -------------------- Result<void,E> and Result<T,E> run side by side
\* slot "a" is a Result<void,E>, slot "b" a Result<T,E> whose T has one
\* value; every step applies the same operation to both
IsPair == impl = "pair"

\* the one value of T
UnitValue == ValueTest([kind |-> "int", i |-> 0, s |-> "Init"])

\* what the instances are built, assigned or swapped from: a value, or one
\* of the errors
Sources == [side : {"value"}, e : {NoErr}] \cup [side : {"error"}, e : Errors]

\* Result<void,E>::FromValue() / FromError(e)
VoidOf(src) == IF src.side = "value" THEN VoidResult ELSE ResultOfError(src.e)

\* Result<T,E>::FromValue(UnitValue) / FromError(e)
UnitOf(src) == IF src.side = "value" THEN ResultOfValue(UnitValue) ELSE ResultOfError(src.e)

\* Result<void,E>::CheckError, the same body over the void specialisation
VoidResultCheckError(r, c) ==
    IF VoidHasValue(r)
    THEN Returned(FALSE)
    ELSE IF ResultError(r).out = "returned"
         THEN Returned(ErrorCodeEq(ToErrorType(c), ResultError(r).ret))
         ELSE ResultError(r)

PairStep(op, arg, a, b) ==
    /\ res' = [res EXCEPT !["a"] = a, !["b"] = b]
    /\ last' = Op(op, "a", res["a"].tag, arg, "none", "returned")
    /\ UNCHANGED <<impl, ecode, exc>>

\* Result<void,E> a; Result<T,E> b{value}; or both built from an error
\* (how = "Result"), or Result<void,E>::FromValue() / FromError(e) with the
\* same for b (how = "From")
PairConstruct(how, src) ==
    /\ IsPair /\ ~Live("a") /\ ~Live("b")
    /\ PairStep(how, src, VoidOf(src), UnitOf(src))

\* a = other; b = other;  with other built from src
PairCopyAssign(src) ==
    /\ IsPair /\ Live("a") /\ Live("b")
    /\ PairStep("CopyAssign", src, VariantAssign(res["a"], VoidOf(src)),
                VariantAssign(res["b"], UnitOf(src)))

\* a = std::move(other); b = std::move(other);
PairMoveAssign(src) ==
    /\ IsPair /\ Live("a") /\ Live("b")
    /\ PairStep("MoveAssign", src, VariantAssign(res["a"], VoidOf(src)),
                VariantAssign(res["b"], UnitOf(src)))

\* a.EmplaceValue(); b.EmplaceValue(0);
PairEmplaceValue ==
    /\ IsPair /\ Live("a") /\ Live("b")
    /\ PairStep("EmplaceValue", "none", VariantEmplaceValue(res["a"], NoVal),
                ResultEmplaceValue(res["b"], [kind |-> "int", i |-> 0, s |-> "Init"]))

\* a.EmplaceError(args...); b.EmplaceError(args...);
PairEmplaceError(args) ==
    /\ IsPair /\ Live("a") /\ Live("b")
    /\ PairStep("EmplaceError", args, VariantEmplaceError(res["a"], ErrorCode(args)),
                ResultEmplaceError(res["b"], args))

\* a.Swap(other); b.Swap(other);  with other built from src
PairSwap(src) ==
    /\ IsPair /\ Live("a") /\ Live("b")
    /\ PairStep("Swap", src, VariantSwap(res["a"], VoidOf(src))[1],
                ResultSwap(res["b"], UnitOf(src))[1])

\* both instances go out of scope
PairDestroy ==
    /\ IsPair /\ Live("a") /\ Live("b")
    /\ PairStep("~Result", "none", Absent, Absent)

\* the value accessors of Result<void,E>: void operator*() const,
\* void Value() const, void ValueOr(U&&) const, all { return; }
VoidAccessors == {"operator*", "Value", "ValueOr"}

PairVoidAccess(acc) ==
    /\ IsPair /\ Live("a")
    /\ last' = Op(acc, "a", res["a"].tag, [self |-> res["a"]], "void", "returned")
    /\ UNCHANGED <<impl, res, ecode, exc>>

PairInit ==
    /\ impl = "pair"
    /\ res = [i \in Insts |-> Absent]
    /\ ecode = NoLocal
    /\ exc = NoExc
    /\ last = Op("none", "none", "none", "none", "none", "returned")

PairNext ==
    \/ \E how \in {"Result", "From"}, src \in Sources : PairConstruct(how, src)
    \/ \E src \in Sources : PairCopyAssign(src)
    \/ \E src \in Sources : PairMoveAssign(src)
    \/ PairEmplaceValue
    \/ \E args \in ErrorArgs : PairEmplaceError(args)
    \/ \E src \in Sources : PairSwap(src)
    \/ PairDestroy
    \/ \E acc \in VoidAccessors : PairVoidAccess(acc)

PairSpec == PairInit /\ [][PairNext]_vars

\* ------------------------------------------------------ ByteImpl (byte.h)
\* a ByteImpl is modelled by the number its std::byte member holds
IsByte == impl = "byte"

\* using ByteType = uint8_t: 8 value bits
ByteModulus == 2 ^ 8
Bytes == 0 .. (ByteModulus - 1)
Shifts == 0 .. MaxShift

\* a constructor that stores what it is given without narrowing it
ByteImplWide(value) == value

\* constexpr explicit ByteImpl(ByteType value): the int the operators hand it
\* is converted to uint8_t, that is reduced modulo 2^8
ByteImpl(value) == value % ByteModulus

\* constexpr explicit operator ByteType() const; the operators then work on
\* the value promoted to int
ToByteType(b) == b

\* the built-in |, &, ^ on two non-negative ints, bit by bit from the lowest
RECURSIVE IntOr(_, _)
IntOr(x, y) ==
    IF x = 0 /\ y = 0 THEN 0
    ELSE (IF x % 2 = 1 \/ y % 2 = 1 THEN 1 ELSE 0) + 2 * IntOr(x \div 2, y \div 2)

RECURSIVE IntAnd(_, _)
IntAnd(x, y) ==
    IF x = 0 \/ y = 0 THEN 0
    ELSE (IF x % 2 = 1 /\ y % 2 = 1 THEN 1 ELSE 0) + 2 * IntAnd(x \div 2, y \div 2)

RECURSIVE IntXor(_, _)
IntXor(x, y) ==
    IF x = 0 /\ y = 0 THEN 0
    ELSE (IF x % 2 # y % 2 THEN 1 ELSE 0) + 2 * IntXor(x \div 2, y \div 2)

\* the built-in ~ on an int in two's complement
IntNot(x) == -1 - x

\* the integral types to_integer is instantiated with
IntegerTypes ==
    { [name |-> "bool", bits |-> 1, signed |-> FALSE],
      [name |-> "int8_t", bits |-> 8, signed |-> TRUE],
      [name |-> "uint8_t", bits |-> 8, signed |-> FALSE],
      [name |-> "int16_t", bits |-> 16, signed |-> TRUE],
      [name |-> "uint16_t", bits |-> 16, signed |-> FALSE],
      [name |-> "int32_t", bits |-> 32, signed |-> TRUE] }

\* IntegerType(x) for a uint8_t x: bool is x != 0; a type of at most 16 bits
\* keeps x modulo 2^bits, read as signed where the type is; a 32-bit type
\* holds every uint8_t as it is
IntegerConvert(I, x) ==
    IF I.name = "bool" THEN (IF x # 0 THEN 1 ELSE 0)
    ELSE IF I.bits > 16 THEN x
    ELSE IF I.signed /\ (x % (2 ^ I.bits)) >= 2 ^ (I.bits - 1)
         THEN (x % (2 ^ I.bits)) - (2 ^ I.bits)
         ELSE x % (2 ^ I.bits)

\* template<class IntegerType> IntegerType to_integer(ByteImpl b)
to_integer(I, b) == IntegerConvert(I, ToByteType(b))

\* operator<<(ByteImpl b, IntegerType shift)
ShiftLeft(b, shift) == ByteImpl(ToByteType(b) * (2 ^ shift))

\* operator>>(ByteImpl b, IntegerType shift)
ShiftRight(b, shift) == ByteImpl(ToByteType(b) \div (2 ^ shift))

\* operator|, operator&, operator^, operator~
BitOr(l, r) == ByteImpl(IntOr(ToByteType(l), ToByteType(r)))
BitAnd(l, r) == ByteImpl(IntAnd(ToByteType(l), ToByteType(r)))
BitXor(l, r) == ByteImpl(IntXor(ToByteType(l), ToByteType(r)))
BitNot(b) == ByteImpl(IntNot(ToByteType(b)))

\* the binary operators and their compound assignments; `b op= x` is
\* `return b = b op x`, what it stores in b is what it returns
ShiftOps == {"<<", ">>", "<<=", ">>="}
BitOps == {"|", "&", "^", "|=", "&=", "^="}

ApplyShift(op, b, shift) ==
    CASE op = "<<" -> ShiftLeft(b, shift)
      [] op = ">>" -> ShiftRight(b, shift)
      [] op = "<<=" -> ShiftLeft(b, shift)
      [] op = ">>=" -> ShiftRight(b, shift)

ApplyBitOp(op, l, r) ==
    CASE op = "|" -> BitOr(l, r)
      [] op = "&" -> BitAnd(l, r)
      [] op = "^" -> BitXor(l, r)
      [] op = "|=" -> BitOr(l, r)
      [] op = "&=" -> BitAnd(l, r)
      [] op = "^=" -> BitXor(l, r)

ByteCall(op, typ, l, r, ret) ==
    /\ IsByte
    /\ last' = Op(op, "byte", typ, [l |-> l, r |-> r], ret, "returned")
    /\ UNCHANGED <<impl, res, ecode, exc>>

CallShift(op, b, shift) == ByteCall(op, "none", b, shift, ApplyShift(op, b, shift))
CallBitOp(op, l, r) == ByteCall(op, "none", l, r, ApplyBitOp(op, l, r))
CallBitNot(b) == ByteCall("~", "none", b, 0, BitNot(b))
CallToInteger(I, v) == ByteCall("to_integer", I.name, v, 0, to_integer(I, ByteImpl(v)))

ByteInit ==
    /\ impl = "byte"
    /\ res = [i \in Insts |-> Absent]
    /\ ecode = NoLocal
    /\ exc = NoExc
    /\ last = Op("none", "none", "none", "none", "none", "returned")

\* one call on operands drawn from all bytes
ByteNext ==
    \/ Fresh /\ \E op \in ShiftOps, b \in Bytes, shift \in Shifts : CallShift(op, b, shift)
    \/ Fresh /\ \E op \in BitOps, l, r \in Bytes : CallBitOp(op, l, r)
    \/ Fresh /\ \E b \in Bytes : CallBitNot(b)
    \/ Fresh /\ \E I \in IntegerTypes, v \in Bytes : CallToInteger(I, v)

ByteSpec == ByteInit /\ [][ByteNext]_vars

\* ------------------------------------------------------------- properties
\* exactly one side of r is constructed, and it is the side the tag names
ExactlyOneSide(r) ==
    \/ r.tag = "value" /\ r.vLive /\ ~r.eLive
    \/ r.tag = "error" /\ r.eLive /\ ~r.vLive

\* C1: after any sequence of constructions, assignments, Emplace* and Swap,
\* every Result instance has exactly one side constructed (value side with
\* HasValue() true, or error side with HasValue() false), never both and
\* never neither.
C1_ExactlyOneSideConstructed ==
    \A i \in Insts : res[i].alive => ExactlyOneSide(res[i])

\* C2: FromValue(v), in its lvalue, rvalue and in-place forms, returns an
\* instance with HasValue() true whose Value() is v (T(args...) in place).
C2_FromValueHoldsValue ==
    (IsV /\ last.op = "FromValue") =>
        /\ HasValue(res[last.tgt])
        /\ ResultValue(res[last.tgt]).out = "returned"
        /\ ResultValue(res[last.tgt]).ret =
               (IF last.oth = "args" THEN ValueTest(last.arg) ELSE last.arg)

C2_Witness ==
    /\ IsV /\ last.op = "FromValue" /\ last.oth = "args"
    /\ last.arg.kind = "int_str" /\ last.arg.i = 1 /\ last.arg.s = "Test"
    /\ res[last.tgt].value = [intVal |-> 1, stringVal |-> "Test"]

\* C3: FromError(e), in its lvalue, rvalue and in-place forms, returns an
\* instance with HasValue() false whose Error() is e (E(args...) in place).
C3_FromErrorHoldsError ==
    (IsV /\ last.op = "FromError") =>
        /\ ~HasValue(res[last.tgt])
        /\ ResultError(res[last.tgt]).out = "returned"
        /\ ResultError(res[last.tgt]).ret =
               (IF last.oth = "args" THEN ErrorCode(last.arg) ELSE last.arg)

C3_Witness ==
    /\ IsV /\ last.op = "FromError" /\ last.oth = "rvalue"
    /\ last.arg = MakeErrorCode(kInvalidMetaModelPath, 1)
    /\ res[last.tgt].error = MakeErrorCode(kInvalidMetaModelPath, 1)

\* C4: EmplaceValue(args...) leaves the instance holding the value
\* T(args...) and EmplaceError(args...) leaves it holding the error
\* E(args...), whichever side was active before the call.
C4_EmplaceActivatesRequestedSide ==
    /\ (IsV /\ last.op = "EmplaceValue") =>
           /\ HasValue(res[last.tgt])
           /\ ExactlyOneSide(res[last.tgt])
           /\ res[last.tgt].value = ValueTest(last.arg)
    /\ (IsV /\ last.op = "EmplaceError") =>
           /\ ~HasValue(res[last.tgt])
           /\ ExactlyOneSide(res[last.tgt])
           /\ res[last.tgt].error = ErrorCode(last.arg)

\* EmplaceValue has acted on an instance that held an error
C4_Witness ==
    /\ IsV /\ last.op = "EmplaceValue" /\ last.oth = "error"
    /\ res[last.tgt].tag = "value"

\* C5: after a.Swap(b) on two distinct instances, in each of the four state
\* combinations, a holds the side and payload b held before and b holds the
\* side and payload a held before.
C5_SwapExchanges ==
    (IsV /\ last.op = "Swap") =>
        /\ res[last.tgt] = last.arg[2]
        /\ res[last.oth] = last.arg[1]

\* a cross-state Swap has acted: *this held a value, other an error
C5_Witness ==
    /\ IsV /\ last.op = "Swap"
    /\ last.arg[1].tag = "value" /\ last.arg[2].tag = "error"
    /\ res[last.tgt].tag = "error" /\ res[last.oth].tag = "value"

\* C6: Swap is an involution: the second of two a.Swap(b) calls in a row
\* restores the side and payload a and b held before the first.
C6_SwapTwiceRestores ==
    [][(/\ IsV /\ last.op = "Swap" /\ last'.op = "Swap"
        /\ last'.tgt = last.tgt /\ last'.oth = last.oth)
         => (/\ res'[last.tgt] = last.arg[1]
             /\ res'[last.oth] = last.arg[2])]_vars

\* the second Swap of a row has acted on a value-holding and an
\* error-holding instance
C6_Witness ==
    /\ IsV /\ last.op = "Swap" /\ last.ret = 2
    /\ res[last.tgt].tag = "value" /\ res[last.oth].tag = "error"

\* C7: copy-assignment a = b, in each of the four state combinations,
\* leaves a holding the side and payload of b and leaves b unchanged.
C7_CopyAssignCopies ==
    last.op = "CopyAssign" =>
        /\ res[last.tgt] = last.arg[2]
        /\ res[last.oth] = last.arg[2]

\* C8: Exception::Error() returns a code equal to the one the exception
\* was constructed with, at every later point, also after the ErrorCode
\* object (or the Result holding it) was overwritten or destroyed.
C8_ExceptionKeepsItsCode ==
    last.op = "Exception::Error" => ErrorCodeEq(last.ret, last.arg)

C10_ResolveBindNeverThrow ==
    last.op \in {"Resolve", "Bind"} => last.out = "returned"

\* C11: Bind(f) on a value-holding Result with value v: with f returning T
\* the outcome is a value-holding Result whose value is f(v); with f
\* returning Result<T,E> the outcome is exactly the Result f(v) returned;
\* with the identity callable the outcome holds a value equal to v.
C11_BindOnValue ==
    (IsV /\ last.op = "Bind" /\ last.oth = "value"
         /\ last.arg.shape \in {"T", "Result"}) =>
        /\ last.out = "returned"
        /\ last.arg.shape = "T" =>
               /\ ExactlyOneSide(last.ret) /\ HasValue(last.ret)
               /\ last.ret.value = ApplyBindFnT(last.arg, res[last.tgt].value)
        /\ last.arg.shape = "Result" =>
               last.ret = ApplyBindFnResult(last.arg, res[last.tgt].value)
        /\ last.arg.name = "id" => last.ret.value = res[last.tgt].value
        /\ (last.arg.shape = "T" /\ last.arg.name = "inc") =>
               last.ret.value.intVal = (res[last.tgt].value.intVal + 1) % (MaxInt + 1)

C11_Witness ==
    /\ IsV /\ last.op = "Bind" /\ last.oth = "value"
    /\ last.arg.shape = "T" /\ last.arg.name = "inc"
    /\ last.out = "returned" /\ last.ret.value # res[last.tgt].value

\* C12: Bind(f) on an error-holding Result does not invoke f and returns a
\* new error-holding Result whose error is the original error.
C12_BindOnError ==
    (IsV /\ last.op = "Bind" /\ last.oth = "error") =>
        /\ last.out = "returned"
        /\ Len(last.calls) = 0
        /\ ExactlyOneSide(last.ret) /\ ~HasValue(last.ret)
        /\ last.ret.error = res[last.tgt].error

C12_Witness ==
    /\ IsV /\ last.op = "Bind" /\ last.oth = "error"
    /\ last.arg.shape = "Result" /\ last.out = "returned"
    /\ last.ret.error.value = kInvalidMetaModelPath /\ last.ret.error.data = MaxData

\* C13: Resolve(f) always returns: on a value-holding Result the held value,
\* f not invoked; on an error-holding Result f is invoked exactly once with
\* the held error and f(error) converted to T is returned.
C13_ResolveTotal ==
    (IsV /\ last.op = "Resolve") =>
        /\ last.out = "returned"
        /\ last.oth = "value" =>
               /\ Len(last.calls) = 0
               /\ last.ret = res[last.tgt].value
        /\ last.oth = "error" =>
               /\ last.calls = <<res[last.tgt].error>>
               /\ last.ret = ApplyResolveFn(last.arg, res[last.tgt].error)

C13_Witness ==
    /\ IsV /\ last.op = "Resolve" /\ last.oth = "error" /\ last.arg = "data"
    /\ last.out = "returned" /\ last.ret.intVal = MaxData % (MaxInt + 1)
    /\ res[last.tgt].error.data = MaxData

\* C14: ValueOr(d), lvalue and rvalue overload alike, returns the held value
\* when the value side is active and d converted to T when the error side
\* is active, and leaves the instance's side and payload as they were.
C14_ValueOr ==
    last.op = "ValueOr" =>
        /\ last.arg.form \in {"lvalue", "rvalue"}
        /\ last.out = "returned"
        /\ res[last.tgt] = last.arg.self
        /\ last.arg.self.tag = "value" => last.ret = last.arg.self.value
        /\ last.arg.self.tag = "error" =>
               last.ret = [intVal |-> last.arg.d.i,
                           stringVal |-> IF last.arg.d.conv = "int" THEN "Init"
                                                                    ELSE last.arg.d.s]

C14_Witness ==
    /\ last.op = "ValueOr" /\ last.arg.form = "rvalue" /\ last.oth = "error"
    /\ last.arg.d.conv = "int" /\ last.ret.intVal = MaxInt
    /\ ~HasValue(res[last.tgt])

\* C15: ErrorOr(d) of Result<T,E> and of Result<void,E> returns the held
\* error when the error side is active and d converted to E when the value
\* side is active, and leaves the instance as it was.
C15_ErrorOr ==
    last.op = "ErrorOr" =>
        /\ last.out = "returned"
        /\ res[last.tgt] = last.arg.self
        /\ last.arg.self.tag = "error" => last.ret = last.arg.self.error
        /\ last.arg.self.tag = "value" =>
               last.ret = [value |-> last.arg.d.code, domain |-> "Core",
                           data |-> IF last.arg.d.conv = "enum" THEN 0
                                                                ELSE last.arg.d.data]

C15_Witness ==
    /\ IsVoid /\ last.op = "ErrorOr" /\ last.oth = "value"
    /\ last.arg.d.conv = "enum" /\ last.ret.value = kInvalidMetaModelPath

\* C16: CheckError(c) is false whenever the value side is active; with the
\* error side active it is true exactly when c converted to E compares
\* equal (code value and domain id) to the held error.
C16_CheckError ==
    last.op = "CheckError" =>
        /\ last.out = "returned"
        /\ res[last.tgt].tag = "value" => last.ret = FALSE
        /\ res[last.tgt].tag = "error" =>
               last.ret = (/\ last.arg.code = res[last.tgt].error.value
                           /\ Id("Core") = Id(res[last.tgt].error.domain))

C16_Witness ==
    /\ last.op = "CheckError" /\ last.oth = "error" /\ last.ret = TRUE
    /\ last.arg.conv = "enum" /\ res[last.tgt].error.data = MaxData

C18_MixedEquality ==
    /\ last.op = "cmpT" =>
           LET holds == /\ res[last.tgt].tag = "value"
                        /\ res[last.tgt].value = last.arg.t
           IN  last.ret = IF last.arg.form \in {"r==t", "t==r"} THEN holds ELSE ~holds
    /\ last.op = "cmpE" =>
           LET holds == /\ res[last.tgt].tag = "error"
                        /\ res[last.tgt].error.value = last.arg.e.value
                        /\ Id(res[last.tgt].error.domain) = Id(last.arg.e.domain)
           IN  last.ret = IF last.arg.form \in {"r==e", "e==r"} THEN holds ELSE ~holds
    /\ last.op = "r!=r" =>
           last.ret = ~(/\ res[last.tgt].tag = "value" /\ res[last.oth].tag = "value"
                        /\ res[last.tgt].value = res[last.oth].value)

C18_Witness ==
    /\ IsVoid /\ last.op = "cmpE" /\ last.arg.form = "e!=r"
    /\ res[last.tgt].tag = "error" /\ last.ret = FALSE
    /\ last.arg.e.data # res[last.tgt].error.data

\* C19: two ErrorCodes compare equal exactly when their values are equal and
\* their domains have the same id; the support data plays no part; != is
\* the negation of ==.
C19_ErrorCodeEquality ==
    last.op \in {"e==e", "e!=e"} =>
        LET lhs == last.arg[1]
            rhs == last.arg[2]
            same == /\ lhs.value = rhs.value
                    /\ DomainObjects[lhs.domain].id = DomainObjects[rhs.domain].id
        IN  last.ret = IF last.op = "e==e" THEN same ELSE ~same

C19_Witness ==
    /\ last.op = "e==e" /\ last.ret = TRUE
    /\ last.arg[1].data # last.arg[2].data
    /\ last.arg[1].domain # last.arg[2].domain

\* C20: two ErrorDomain objects compare equal exactly when their ids are
\* equal, whatever their identity and concrete type; != is the negation;
\* GetCoreErrorDomain() returns a domain whose id is 0x8000000000000014 and
\* which equals the global coreErrorDomain.
C20_ErrorDomainEquality ==
    /\ last.op \in {"d==d", "d!=d"} =>
           LET same == DomainObjects[last.arg[1]].id = DomainObjects[last.arg[2]].id
           IN  last.ret = IF last.op = "d==d" THEN same ELSE ~same
    /\ last.op = "GetCoreErrorDomain" =>
           /\ DomainObjects[last.ret].id = <<32768, 0, 0, 20>>
           /\ DomainEq(last.ret, coreErrorDomain)

C20_Witness ==
    /\ last.op = "d==d" /\ last.ret = TRUE
    /\ last.arg[1] # last.arg[2]
    /\ DomainObjects[last.arg[1]].type # DomainObjects[last.arg[2]].type

\* C21: ErrorCode::Message() delegates to the domain's Message for its own
\* value: c.Message() equals c.Domain().Message(c.Value()).
C21_MessageDelegates ==
    last.op = "ErrorCode::Message" =>
        last.ret = DomainMessage(last.arg.domain, last.arg.value)

\* C22: CoreErrorDomain::Message returns for every 32-bit code a text that
\* is not null: the specific text for 22, 137 and 138, and the fallback
\* "Invalid code value" for every other code.
C22_CoreMessageTotal ==
    last.op = "CoreErrorDomain::Message" =>
        /\ last.out = "returned"
        /\ last.arg = 22 => last.ret = "an invalid argument was passed to a function"
        /\ last.arg = 137 =>
               last.ret = "given string is not a valid model element shortname"
        /\ last.arg = 138 => last.ret = "missing or invalid path to model element"
        /\ last.arg \notin {22, 137, 138} => last.ret = "Invalid code value"

C22_Witness ==
    /\ last.op = "CoreErrorDomain::Message" /\ last.arg = 9999
    /\ last.ret = "Invalid code value"

\* C23: ErrorCode::ThrowAsException() hands itself to its domain's
\* ThrowAsException; for the core domain the call does not return, a
\* CoreException is raised, and Error() of the exception, asked first
\* thing in the handler, equals the code that was thrown.
C23_ThrowAsExceptionEmbedsCode ==
    [][/\ last'.op = "ThrowAsException" =>
           /\ last'.out = "thrown"
           /\ exc'.kind = "CoreException"
           /\ exc'.given = last'.arg
       /\ (last.op = "ThrowAsException" /\ last'.op = "Exception::Error") =>
           ErrorCodeEq(last'.ret, last.arg)]_vars

\* C24: MakeErrorCode(c, d) has Value() equal to the number of c, Domain()
\* equal to the core error domain and SupportData() equal to d; an
\* ErrorCode constructed from the enumerator has the same three components.
C24_MakeErrorCodeRoundTrip ==
    last.op = "BuildErrorCode" =>
        /\ last.ret.value = last.arg.code
        /\ last.ret.value \in {22, 137, 138}
        /\ DomainObjects[last.ret.domain].id = coreId
        /\ DomainEq(last.ret.domain, GetCoreErrorDomain)
        /\ last.ret.data = last.arg.data

C24_Witness ==
    /\ last.op = "BuildErrorCode" /\ last.oth = "enum"
    /\ last.ret.value = 137 /\ last.ret.data = MaxData /\ MaxData > 0

\* C25: a Result<void,E> and a Result<T,E> with a one-valued T taken through
\* the same operations agree after every step on HasValue(), Error(),
\* ErrorOr(d) and CheckError(c); Value, operator* and ValueOr of the
\* Result<void,E> change nothing.
C25_VoidRefinesResult ==
    (IsPair /\ Live("a")) =>
        /\ Live("b")
        /\ VoidHasValue(res["a"]) = HasValue(res["b"])
        /\ ResultError(res["a"]).out = ResultError(res["b"]).out
        /\ ResultError(res["a"]).out = "returned" =>
               ResultError(res["a"]).ret = ResultError(res["b"]).ret
        /\ \A d \in ErrorDefaults :
               VoidResultErrorOr(res["a"], d).ret = ResultErrorOr(res["b"], d).ret
        /\ \A c \in ErrorDefaults :
               VoidResultCheckError(res["a"], c).ret = ResultCheckError(res["b"], c).ret
        /\ last.op \in VoidAccessors => res["a"] = last.arg.self

C25_Witness ==
    /\ IsPair /\ last.op = "Swap" /\ last.arg.side = "value"
    /\ VoidHasValue(res["a"]) /\ HasValue(res["b"])

\* C26: every observer of a Result<T,E> lvalue (HasValue, operator bool,
\* Value, operator*, operator->, Error, ValueOr, ErrorOr, CheckError, Resolve,
\* Bind, the comparison operators) leaves the active side and the payload of
\* every instance as they were; a Bind that follows a Bind on the same
\* instance hands its callable the same value.
C26_ObserversChangeNothing ==
    [][ (IsV /\ last'.op \in ObserverOps) =>
            /\ res' = res
            /\ (last.op = "Bind" /\ last'.op = "Bind" /\ last'.tgt = last.tgt
                    /\ last.calls # <<>> /\ last'.calls # <<>>)
                  => last'.calls = last.calls ]_vars

C26_Witness ==
    /\ IsV /\ last.op = "Bind" /\ last.out = "returned"
    /\ HasValue(res[last.tgt]) /\ last.calls = <<res[last.tgt].value>>
    /\ HasValue(last.ret) /\ last.ret.value # res[last.tgt].value

Bit(x, k) == (x \div (2 ^ k)) % 2

\* what the claim says each operator yields, apart from to_integer
ByteOperatorsExact ==
    /\ last.op \in ShiftOps \cup BitOps \cup {"~"} => last.ret \in Bytes
    /\ last.op \in {"<<", "<<="} => last.ret = (last.arg.l * (2 ^ last.arg.r)) % 256
    /\ last.op \in {">>", ">>="} => last.ret = last.arg.l \div (2 ^ last.arg.r)
    /\ last.op = "~" => last.ret = 255 - last.arg.l
    /\ last.op \in {"|", "|="} =>
          \A k \in 0..7 : Bit(last.ret, k) = 1 <=>
                              (Bit(last.arg.l, k) = 1 \/ Bit(last.arg.r, k) = 1)
    /\ last.op \in {"&", "&="} =>
          \A k \in 0..7 : Bit(last.ret, k) = 1 <=>
                              (Bit(last.arg.l, k) = 1 /\ Bit(last.arg.r, k) = 1)
    /\ last.op \in {"^", "^="} =>
          \A k \in 0..7 : Bit(last.ret, k) = 1 <=>
                              (Bit(last.arg.l, k) # Bit(last.arg.r, k))

\* the integral types that hold every value 0..255
HoldsEveryByte(name) == name \notin {"bool", "int8_t"}

\* C28 as stated: the ByteImpl operators are exact 8-bit operations, the
\* compound assignments store what the binary operators yield, and
\* to_integer<I>(ByteImpl(v)) == v for every integral type I.
C28_ByteOperatorsAnyIntegerType ==
    IsByte => /\ ByteOperatorsExact
              /\ last.op = "to_integer" => last.ret = last.arg.l

\* C28 amended: the same, with to_integer<I>(ByteImpl(v)) == v for the
\* integral types I that hold every value 0..255; for bool and the signed
\* 8-bit type the result is v converted to I (v != 0, v - 256 from 128 on).
C28_ByteOperators ==
    IsByte => /\ ByteOperatorsExact
              /\ (last.op = "to_integer" /\ HoldsEveryByte(last.oth))
                    => last.ret = last.arg.l
              /\ (last.op = "to_integer" /\ last.oth = "bool")
                    => last.ret = (IF last.arg.l = 0 THEN 0 ELSE 1)
              /\ (last.op = "to_integer" /\ last.oth = "int8_t")
                    => last.ret = (IF last.arg.l < 128 THEN last.arg.l
                                                      ELSE last.arg.l - 256)

C28_Witness ==
    /\ IsByte /\ last.op = "<<=" /\ last.arg.l = 255 /\ last.arg.r = 7
    /\ last.ret = 128

\* C29: EmplaceValue and EmplaceError destroy the side that is active
\* before they construct the requested one: whenever an object is
\* constructed in the storage no object lives there, neither of the other
\* side nor of the same one; every destructor call ends the lifetime of an
\* object that was constructed and not yet destroyed; no instance ever has
\* both sides constructed, and none is left constructed when the
\* instance's lifetime has ended.
C29_DestroyBeforeConstruct ==
    (IsV \/ IsDraft) =>
        /\ \A k \in DOMAIN last.steps :
              /\ last.steps[k].act = "construct" =>
                     (~last.steps[k].vLive /\ ~last.steps[k].eLive)
              /\ last.steps[k].act = "destroy" => SideLive(last.steps[k])
        /\ \A i \in Insts :
              /\ ~(res[i].vLive /\ res[i].eLive)
              /\ ~Live(i) => (~res[i].vLive /\ ~res[i].eLive)

\* C30: in a Swap of an instance holding a value with one holding an error,
\* every read takes the side that is active in the instance it reads (the
\* value from the value holder, the error from the error holder) while the
\* object there is alive, and no payload is destroyed or overwritten unless
\* an earlier step of the Swap has read it out. For the variant-based Swap
\* and for the raw-union draft.
C30_CrossSwapReadsActiveSides ==
    ((IsV \/ IsDraft) /\ last.op = "Swap" /\ last.arg[1].tag # last.arg[2].tag) =>
        \A k \in DOMAIN last.steps :
            /\ last.steps[k].act = "read" =>
                   (last.steps[k].side = last.steps[k].tag /\ SideLive(last.steps[k]))
            /\ last.steps[k].act \in {"destroy", "assign"} =>
                   \E j \in 1..(k - 1) :
                       /\ last.steps[j].act = "read"
                       /\ last.steps[j].inst = last.steps[k].inst
                       /\ last.steps[j].side = last.steps[k].side
====
